---- MODULE Spec2Model ----
(***************************************************************************)
(* Model of the mobile speed-audit pipeline of src/src/audit-engine.js:    *)
(* runAudit (URL validation, reachability probe, page discovery, browser  *)
(* launch, sequential page drives, scoring, teardown), auditPage,          *)
(* generateFindings and calculateScore.                                    *)
(*                                                                         *)
(* Strings the code inspects character by character (URLs, path patterns,  *)
(* labels) are sequences of one-character strings.  Times are integers in  *)
(* milliseconds (Date.now() differences); a JS number that may be NaN is a *)
(* fraction [num, den] of milliseconds whose den = 0 stands for 0/0.       *)
(***************************************************************************)
EXTENDS Integers, Sequences, FiniteSets, TLC

VARIABLES
  rawUrl,        \* runAudit: the url argument
  pc,            \* runAudit: the await the run is suspended on
  baseUrl,       \* runAudit: validUrl.toString()
  isValid,       \* runAudit: "unset", then "true" or "false" from validateSite
  catIdx,        \* discoverMoneyPages: index of the category being probed
  patIdx,        \* discoverMoneyPages: index of the pattern being probed
  discovered,    \* discoverMoneyPages: the discovered array (runAudit: pages)
  probeLog,      \* history: test URLs whose HEAD probe has resolved
  probeOutcome,  \* history: how the latest probe settled, until the launch
  browser,       \* "none" | "open" | "closed"
  launches,      \* history: number of chromium.launch() calls that succeeded
  pageIdx,       \* runAudit: index in pages of the page being driven
  openContexts,  \* indices of pages whose browsing context is open
  contextLog,    \* history: openContexts at each return/throw of auditPage
  driveLog,      \* history: indices of pages for which auditPage was called
  observed,      \* auditPage: loadTime / requests of the page being driven
  audits,        \* runAudit: the audits array
  errorLog,      \* runAudit: console.error lines, as page indices
  result,        \* what runAudit returned or threw
  fData,         \* generateFindings: argument
  fOut,          \* generateFindings: return value
  sIn,           \* calculateScore: pair of arguments
  sOut,          \* calculateScore: pair of return values
  pgRequests,    \* auditPage: the requests array filled by the callbacks
  pgSent,        \* history: per request, the response the network gave it
  pgOut          \* auditPage: return value

vars == <<rawUrl, pc, baseUrl, isValid, catIdx, patIdx, discovered, probeLog,
          probeOutcome,
          browser, launches, pageIdx, openContexts, contextLog, driveLog,
          observed, audits, errorLog, result, fData, fOut, sIn, sOut,
          pgRequests, pgSent, pgOut>>

runVars == <<rawUrl, pc, baseUrl, isValid, catIdx, patIdx, discovered, probeLog,
             probeOutcome,
             browser, launches, pageIdx, openContexts, contextLog, driveLog,
             observed, audits, errorLog, result>>

None == [kind |-> "none"]

----------------------------------------------------------------------------
(* Page patterns for discovering high-value pages.                         *)
PAGE_PATTERNS ==
  <<
     [category |-> "saas",
      patterns |-> <<
        <<"/","p","r","i","c","i","n","g">>,
        <<"/","p","l","a","n","s">>,
        <<"/","d","e","m","o">>,
        <<"/","s","i","g","n","u","p">>,
        <<"/","s","i","g","n","-","u","p">>,
        <<"/","r","e","g","i","s","t","e","r">>,
        <<"/","g","e","t","-","s","t","a","r","t","e","d">>>>],
     [category |-> "ecommerce",
      patterns |-> <<
        <<"/","p","r","o","d","u","c","t","s">>,
        <<"/","s","h","o","p">>,
        <<"/","s","t","o","r","e">>,
        <<"/","c","a","r","t">>,
        <<"/","c","h","e","c","k","o","u","t">>>>],
     [category |-> "booking",
      patterns |-> <<
        <<"/","b","o","o","k">>,
        <<"/","b","o","o","k","i","n","g">>,
        <<"/","s","c","h","e","d","u","l","e">>,
        <<"/","a","p","p","o","i","n","t","m","e","n","t">>,
        <<"/","r","e","s","e","r","v","e">>>>],
     [category |-> "contact",
      patterns |-> <<
        <<"/","c","o","n","t","a","c","t">>,
        <<"/","c","o","n","t","a","c","t","-","u","s">>,
        <<"/","g","e","t","-","i","n","-","t","o","u","c","h">>>>]
  >>

----------------------------------------------------------------------------
(* new URL(s) without a base, URL.protocol setter, URL.toString().         *)

Alpha == {"a","b","c","d","e","f","g","h","i","j","k","l","m","n","o","p",
          "q","r","s","t","u","v","w","x","y","z"}
Digit == {"0","1","2","3","4","5","6","7","8","9"}
SchemeChar == Alpha \cup Digit \cup {"+", "-", "."}

HTTP  == <<"h","t","t","p">>
HTTPS == <<"h","t","t","p","s">>
SpecialSchemes == {HTTP, HTTPS, <<"f","t","p">>, <<"w","s">>, <<"w","s","s">>}

\* Index of the first occurrence of c in s, 0 when there is none.
IndexOf(s, c) ==
  IF \E i \in 1..Len(s) : s[i] = c
  THEN CHOOSE i \in 1..Len(s) : s[i] = c /\ \A j \in 1..(i-1) : s[j] # c
  ELSE 0

\* s without its leading slashes.
RECURSIVE StripSlashes(_)
StripSlashes(s) ==
  IF s # <<>> /\ Head(s) = "/" THEN StripSlashes(Tail(s)) ELSE s

\* The URL parser: a scheme (a letter, then letters, digits, + - .) ended by
\* ":" is required since there is no base URL; a special scheme needs a
\* non-empty host; any other scheme takes the rest as an opaque path.
ParseURL(s) ==
  LET colon == IndexOf(s, ":") IN
  IF colon < 2 \/ s[1] \notin Alpha
     \/ \E i \in 1..(colon-1) : s[i] \notin SchemeChar
  THEN [ok |-> FALSE, scheme |-> <<>>, special |-> FALSE,
        host |-> <<>>, path |-> <<>>]
  ELSE
    LET scheme == SubSeq(s, 1, colon - 1)
        rest   == SubSeq(s, colon + 1, Len(s))
    IN
    IF scheme \in SpecialSchemes
    THEN LET auth  == StripSlashes(rest)
             slash == IndexOf(auth, "/")
             host  == IF slash = 0 THEN auth ELSE SubSeq(auth, 1, slash - 1)
             path  == IF slash = 0 THEN <<"/">>
                      ELSE SubSeq(auth, slash, Len(auth))
         IN [ok |-> host # <<>>, scheme |-> scheme, special |-> TRUE,
             host |-> host, path |-> path]
    ELSE [ok |-> TRUE, scheme |-> scheme, special |-> FALSE,
          host |-> <<>>, path |-> rest]

\* s.startsWith(prefix)
StartsWith(s, prefix) ==
  Len(s) >= Len(prefix) /\ SubSeq(s, 1, Len(prefix)) = prefix

\* url.protocol = 'https:' : the setter leaves a URL with a non-special
\* scheme unchanged.
SetProtocolHttps(u) ==
  IF u.special THEN [u EXCEPT !.scheme = HTTPS] ELSE u

\* url.toString()
Serialize(u) ==
  IF u.special THEN u.scheme \o <<":","/","/">> \o u.host \o u.path
  ELSE u.scheme \o <<":">> \o u.path

\* `${urlObj.protocol}//${urlObj.host}`
BaseHost(u) == u.scheme \o <<":","/","/">> \o u.host

\* The url arguments a run is started with.
RawUrls ==
  { <<"h","t","t","p","s",":","/","/","a",".","c","o">>,
    <<"f","t","p",":","/","/","a",".","c","o">>,
    <<"a",".","c","o">>,
    <<"a",".","c","o",":","8","0">>,
    <<"w","w","w",".","a",".","c","o","/","x">>,
    <<"m","a","i","l","t","o",":","a">>,
    <<"h","t","t","p","s",":","/","/">>,
    <<>> }

----------------------------------------------------------------------------
(* Outcomes of a HEAD fetch with an abort timer.                           *)
Statuses == {200, 204, 301, 404, 500}
FetchOutcomes ==
  [kind : {"response"}, status : Statuses]
    \cup {[kind |-> "error", status |-> 0], [kind |-> "timeout", status |-> 0]}

----------------------------------------------------------------------------
(* generateFindings                                                        *)

Undefined == [defined |-> FALSE, bytes |-> 0]
Bytes(n)  == [defined |-> TRUE, bytes |-> n]

Finding(issue, impact, category, threshold) ==
  [issue |-> issue, impact |-> impact, category |-> category,
   threshold |-> threshold]

Fix(action, difficulty, priority) ==
  [action |-> action, difficulty |-> difficulty, priority |-> priority]

\* Load-time tiers whose thresholds belong to the worse tier.
LoadTimeRuleInclusive(data) ==
  IF data.loadTime >= 4000
  THEN [findings |-> <<Finding("Page takes too long to load on mobile",
                               "critical", "performance", "Target: <3s")>>,
        fixes |-> <<Fix("Implement critical resource prioritization",
                        "medium", 1)>>]
  ELSE IF data.loadTime >= 2500
  THEN [findings |-> <<Finding("Page could load faster on mobile",
                               "high", "performance", "Target: <2.5s")>>,
        fixes |-> <<>>]
  ELSE [findings |-> <<>>, fixes |-> <<>>]

\* if (data.loadTime > 4) ... else if (data.loadTime > 2.5) ...
LoadTimeRule(data) ==
  IF data.loadTime > 4000
  THEN [findings |-> <<Finding("Page takes too long to load on mobile",
                               "critical", "performance", "Target: <3s")>>,
        fixes |-> <<Fix("Implement critical resource prioritization",
                        "medium", 1)>>]
  ELSE IF data.loadTime > 2500
  THEN [findings |-> <<Finding("Page could load faster on mobile",
                               "high", "performance", "Target: <2.5s")>>,
        fixes |-> <<>>]
  ELSE [findings |-> <<>>, fixes |-> <<>>]

\* if (data.largestResource && parseInt(data.largestResource.size) > 1000000)
LargestResourceRule(data) ==
  IF data.largestResource.kind = "resource"
     /\ data.largestResource.size > 1000000
  THEN [findings |-> <<Finding("Largest resource is too heavy",
                               "high", "resources", "Target: <1MB")>>,
        fixes |->
          IF data.largestResource.type = "image"
          THEN <<Fix("Optimize and compress the large image", "easy", 1)>>
          ELSE IF data.largestResource.type = "script"
          THEN <<Fix("Split the large JavaScript bundle", "medium", 2)>>
          ELSE <<>>]
  ELSE [findings |-> <<>>, fixes |-> <<>>]

\* if (data.totalRequests > 100) ... else if (data.totalRequests > 50) ...
RequestCountRule(data) ==
  IF data.totalRequests > 100
  THEN [findings |-> <<Finding("HTTP requests slow down mobile loading",
                               "high", "resources", "Target: <50 requests")>>,
        fixes |-> <<Fix("Bundle and minimize HTTP requests", "medium", 2)>>]
  ELSE IF data.totalRequests > 50
  THEN [findings |-> <<Finding("Requests could be optimized for mobile",
                               "medium", "resources", "Target: <30 requests")>>,
        fixes |-> <<>>]
  ELSE [findings |-> <<>>, fixes |-> <<>>]

\* if (data.totalSize > 5000000): an undefined totalSize compares false.
TotalSizeRule(data) ==
  IF data.totalSize.defined /\ data.totalSize.bytes > 5000000
  THEN [findings |-> <<Finding("Total page weight is too heavy",
                               "high", "resources", "Target: <3MB")>>,
        fixes |-> <<Fix("Reduce total page weight", "medium", 2)>>]
  ELSE [findings |-> <<>>, fixes |-> <<>>]

\* if (data.thirdPartyScripts > 8) ... else if (data.thirdPartyScripts > 5)
ThirdPartyRule(data) ==
  IF data.thirdPartyScripts > 8
  THEN [findings |-> <<Finding("Third-party scripts slow down page loading",
                               "high", "third-party", "Target: <5 scripts")>>,
        fixes |-> <<Fix("Audit and reduce third-party scripts", "easy", 2)>>]
  ELSE IF data.thirdPartyScripts > 5
  THEN [findings |-> <<Finding("Third-party scripts could be optimized",
                               "medium", "third-party", "Target: <3 scripts")>>,
        fixes |-> <<Fix("Defer non-critical third-party scripts", "easy", 3)>>]
  ELSE [findings |-> <<>>, fixes |-> <<>>]

\* if (data.hasForms)
FormsRule(data) ==
  IF data.hasForms
  THEN [findings |-> <<Finding("Forms not optimized for mobile users",
                               "medium", "usability",
                               "Target: Full mobile optimization")>>,
        fixes |-> <<Fix("Optimize forms for mobile", "easy", 3)>>]
  ELSE [findings |-> <<>>, fixes |-> <<>>]

\* if (data.imageCount > 30)
ImageCountRule(data) ==
  IF data.imageCount > 30
  THEN [findings |-> <<Finding("Images increase page load time on mobile",
                               "medium", "resources", "Target: <20 images")>>,
        fixes |-> <<Fix("Implement image lazy loading and optimization",
                        "easy", 3)>>]
  ELSE [findings |-> <<>>, fixes |-> <<>>]

FallbackFinding ==
  Finding("Page could benefit from performance optimization",
          "low", "general", "Target: Optimized mobile experience")
FallbackFix ==
  Fix("Implement basic performance optimizations", "easy", 1)

\* A rule table without the fallback.
FallbackRuleMissing(acc) == acc

\* A fallback that is pushed whatever the rules found.
FallbackRuleAlways(acc) ==
  [findings |-> acc.findings \o <<FallbackFinding>>,
   fixes |-> acc.fixes \o <<FallbackFix>>]

\* if (findings.length === 0) { findings.push(...); fixes.push(...) }
FallbackRule(acc) ==
  IF Len(acc.findings) = 0
  THEN [findings |-> acc.findings \o <<FallbackFinding>>,
        fixes |-> acc.fixes \o <<FallbackFix>>]
  ELSE acc

\* The findings and fixes arrays as pushed, before the sort.
EmitRules(data) ==
  LET rules == <<LoadTimeRule(data), LargestResourceRule(data),
                 RequestCountRule(data), TotalSizeRule(data),
                 ThirdPartyRule(data), FormsRule(data),
                 ImageCountRule(data)>>
      Cat(field) == rules[1][field] \o rules[2][field] \o rules[3][field]
                    \o rules[4][field] \o rules[5][field] \o rules[6][field]
                    \o rules[7][field]
  IN FallbackRule([findings |-> Cat("findings"), fixes |-> Cat("fixes")])

\* (a.priority || 99)
SortKey(fix) == IF fix.priority = 0 THEN 99 ELSE fix.priority

\* An insertion that puts a fix in front of the fixes of equal key.
RECURSIVE InsertFixBeforeEqual(_, _)
InsertFixBeforeEqual(sorted, fix) ==
  IF sorted = <<>> THEN <<fix>>
  ELSE IF SortKey(Head(sorted)) - SortKey(fix) < 0
       THEN <<Head(sorted)>> \o InsertFixBeforeEqual(Tail(sorted), fix)
       ELSE <<fix>> \o sorted

\* Insertion of one fix behind every fix whose key is not larger.
RECURSIVE InsertFix(_, _)
InsertFix(sorted, fix) ==
  IF sorted = <<>> THEN <<fix>>
  ELSE IF SortKey(Head(sorted)) - SortKey(fix) <= 0
       THEN <<Head(sorted)>> \o InsertFix(Tail(sorted), fix)
       ELSE <<fix>> \o sorted

\* fixes.sort((a, b) => (a.priority || 99) - (b.priority || 99)):
\* Array.prototype.sort is stable.
RECURSIVE SortFixes(_)
SortFixes(fixes) ==
  IF fixes = <<>> THEN <<>>
  ELSE InsertFix(SortFixes(SubSeq(fixes, 1, Len(fixes) - 1)),
                 fixes[Len(fixes)])

generateFindings(data) ==
  LET emitted == EmitRules(data)
  IN [findings |-> emitted.findings, fixes |-> SortFixes(emitted.fixes)]

----------------------------------------------------------------------------
(* calculateScore, getRecommendation                                       *)

\* loadTime <= secs for a number held as a fraction of milliseconds; every
\* comparison with NaN (den = 0) is false.
LessEq(loadTime, secs) ==
  loadTime.den # 0 /\ loadTime.num <= secs * 1000 * loadTime.den

\* A step table whose boundaries fall into the worse tier.
calculateScoreExclusive(loadTime) ==
  IF loadTime.den # 0 /\ loadTime.num < 2000 * loadTime.den THEN 90
  ELSE IF loadTime.den # 0 /\ loadTime.num < 3000 * loadTime.den THEN 75
  ELSE IF loadTime.den # 0 /\ loadTime.num < 4000 * loadTime.den THEN 60
  ELSE IF loadTime.den # 0 /\ loadTime.num < 5000 * loadTime.den THEN 45
  ELSE 30

calculateScore(loadTime) ==
  IF LessEq(loadTime, 2) THEN 90
  ELSE IF LessEq(loadTime, 3) THEN 75
  ELSE IF LessEq(loadTime, 4) THEN 60
  ELSE IF LessEq(loadTime, 5) THEN 45
  ELSE 30

getRecommendation(score) ==
  IF score >= 75 THEN "Good performance, minor optimizations recommended"
  ELSE IF score >= 50
  THEN "Moderate performance issues that should be addressed"
  ELSE "Significant performance issues affecting user experience"

----------------------------------------------------------------------------
(* auditPage: what one page load shows, and the metrics derived from it.   *)

\* request.size after the response callback: unset (no response seen),
\* the number 0 (no content-length header), or the header's digits.
SizeUnset  == [kind |-> "unset", bytes |-> 0]
SizeZero   == [kind |-> "zero", bytes |-> 0]
SizeOf(n)  == [kind |-> "header", bytes |-> n]

Request(url, type, size) == [url |-> url, type |-> type, size |-> size]

SelfUrl  == <<"h","t","t","p","s",":","/","/","a",".","c","o","/","x">>
OtherUrl == <<"h","t","t","p","s",":","/","/","b",".","c","o","/","x">>

\* The page loads a drive may observe: elapsed milliseconds between
\* startTime and the end of the settle wait, the requests array as the
\* request/response callbacks left it, and whether the page's forms have
\* more than two inputs without autocomplete.
PageLoads ==
  { [elapsed |-> 5200,
     requests |-> <<Request(SelfUrl, "document", SizeUnset),
                    Request(SelfUrl, "stylesheet", SizeZero),
                    Request(OtherUrl, "script", SizeOf(400000)),
                    Request(SelfUrl, "image", SizeOf(2500000)),
                    Request(OtherUrl, "image", SizeOf(2500000))>>,
     formsIssue |-> TRUE] }

\* requests.filter(r => r.type === type)
OfType(requests, type) ==
  SelectSeq(requests, LAMBDA r : r.type = type)

\* Insertion for .sort((a, b) => parseInt(b.size) - parseInt(a.size))
RECURSIVE InsertBySize(_, _)
InsertBySize(sorted, r) ==
  IF sorted = <<>> THEN <<r>>
  ELSE IF r.size.bytes - Head(sorted).size.bytes <= 0
       THEN <<Head(sorted)>> \o InsertBySize(Tail(sorted), r)
       ELSE <<r>> \o sorted

RECURSIVE SortBySize(_)
SortBySize(requests) ==
  IF requests = <<>> THEN <<>>
  ELSE InsertBySize(SortBySize(SubSeq(requests, 1, Len(requests) - 1)),
                    requests[Len(requests)])

\* requests.filter(r => r.size).sort(...)[0]
LargestResource(requests) ==
  LET sortedBySize ==
        SortBySize(SelectSeq(requests, LAMBDA r : r.size.kind = "header"))
  IN IF sortedBySize = <<>> THEN None
     ELSE [kind |-> "resource", type |-> sortedBySize[1].type,
           size |-> sortedBySize[1].size.bytes]

\* scriptRequests.filter(r => new URL(r.url).host !== pageHost), a URL
\* that does not parse counting as not third-party.
ThirdPartyScripts(requests, pageUrl) ==
  LET pageHost == ParseURL(pageUrl).host
  IN SelectSeq(OfType(requests, "script"),
               LAMBDA r : ParseURL(r.url).ok /\ ParseURL(r.url).host # pageHost)

\* `${(parseInt(size) / 1024 / 1024).toFixed(1)}MB` in tenths of a MB,
\* or 'N/A'.
LargestResourceSize(largest) ==
  IF largest.kind = "none" THEN [na |-> TRUE, tenthsMB |-> 0]
  ELSE [na |-> FALSE,
        tenthsMB |-> (2 * 10 * largest.size + 1048576) \div (2 * 1048576)]

\* The value auditPage returns for a load that got past page.evaluate.
PageAudit(url, load, hasForms) ==
  LET requests == load.requests
      largest  == LargestResource(requests)
      third    == ThirdPartyScripts(requests, url)
  IN [url |-> url,
      loadTime |-> load.elapsed,
      metrics |-> [totalRequests |-> Len(requests),
                   images |-> Len(OfType(requests, "image")),
                   scripts |-> Len(OfType(requests, "script")),
                   stylesheets |-> Len(OfType(requests, "stylesheet")),
                   thirdPartyScripts |-> Len(third),
                   largestResourceSize |-> LargestResourceSize(largest)],
      findings |-> generateFindings(
                     [loadTime |-> load.elapsed,
                      totalRequests |-> Len(requests),
                      imageCount |-> Len(OfType(requests, "image")),
                      scriptCount |-> Len(OfType(requests, "script")),
                      thirdPartyScripts |-> Len(third),
                      largestResource |-> largest,
                      hasForms |-> hasForms,
                      totalSize |-> Undefined])]

----------------------------------------------------------------------------
(* runAudit                                                                *)

Error(message) == [kind |-> "error", message |-> message]

RECURSIVE SumLoadTime(_)
SumLoadTime(as) ==
  IF as = <<>> THEN 0 ELSE Head(as).loadTime + SumLoadTime(Tail(as))

\* audits.reduce((sum, a) => sum + a.loadTime, 0) / audits.length, in
\* milliseconds; 0 / 0 is NaN.
AvgLoadTime(as) == [num |-> SumLoadTime(as), den |-> Len(as)]

\* avgLoadTime.toFixed(2), in hundredths of a second, or "NaN".
ToFixed2(avg) ==
  IF avg.den = 0 THEN [nan |-> TRUE, centis |-> 0]
  ELSE [nan |-> FALSE,
        centis |-> (2 * avg.num + 10 * avg.den) \div (20 * avg.den)]

\* The object runAudit returns.
Report(url, as) ==
  LET avgLoadTime == AvgLoadTime(as)
      score == calculateScore(avgLoadTime)
  IN [kind |-> "report",
      url |-> url,
      score |-> score,
      summary |-> [pagesAudited |-> Len(as),
                   averageLoadTime |-> ToFixed2(avgLoadTime),
                   recommendation |-> getRecommendation(score)],
      pages |-> as]

\* validateSite: response.status < 400, false when the fetch throws or
\* is aborted by the timer.
validateSite(o) == o.kind = "response" /\ o.status < 400

RunInit ==
  /\ rawUrl \in RawUrls
  /\ pc = "start"
  /\ baseUrl = <<>>
  /\ isValid = "unset"
  /\ catIdx = 0
  /\ patIdx = 0
  /\ discovered = <<>>
  /\ probeLog = <<>>
  /\ probeOutcome = None
  /\ browser = "none"
  /\ launches = 0
  /\ pageIdx = 0
  /\ openContexts = {}
  /\ contextLog = <<>>
  /\ driveLog = <<>>
  /\ observed = None
  /\ audits = <<>>
  /\ errorLog = <<>>
  /\ result = None

pgVars == <<pgRequests, pgSent, pgOut>>

PageIdle ==
  /\ pgRequests = <<>>
  /\ pgSent = <<>>
  /\ pgOut = None

PureIdle ==
  /\ fData = None
  /\ fOut = None
  /\ sIn = None
  /\ sOut = None
  /\ PageIdle

pureVars == <<fData, fOut, sIn, sOut, pgRequests, pgSent, pgOut>>

\* runAudit up to its first await: new URL(url), the protocol default, and
\* the call of validateSite.
Start ==
  /\ pc = "start"
  /\ LET u == ParseURL(rawUrl) IN
     IF ~u.ok
     THEN /\ pc' = "failed"
          /\ result' = Error("Invalid URL provided")
          /\ baseUrl' = baseUrl
     ELSE LET validUrl == IF ~StartsWith(u.scheme \o <<":">>, HTTP)
                          THEN SetProtocolHttps(u) ELSE u
          IN /\ baseUrl' = Serialize(validUrl)
             /\ pc' = "validateSite"
             /\ result' = result
  /\ UNCHANGED <<rawUrl, isValid, catIdx, patIdx, discovered, probeLog, probeOutcome,
                 browser, launches, pageIdx, openContexts, contextLog, driveLog,
                 observed, audits, errorLog>>
  /\ UNCHANGED pureVars

\* A run that goes on to discovery whatever validateSite answered.
ValidateResolvedNoThrow(o) ==
  /\ pc = "validateSite"
  /\ ParseURL(baseUrl).scheme \notin {HTTP, HTTPS} => o.kind = "error"
  /\ isValid' = IF validateSite(o) THEN "true" ELSE "false"
  /\ discovered' = <<[url |-> baseUrl, type |-> "homepage",
                      label |-> <<"H","o","m","e","p","a","g","e">>]>>
  /\ catIdx' = 1
  /\ patIdx' = 1
  /\ pc' = "probe"
  /\ UNCHANGED <<rawUrl, baseUrl, probeLog, probeOutcome, browser, launches, pageIdx,
                 openContexts, contextLog, driveLog, observed, audits,
                 errorLog, result>>
  /\ UNCHANGED pureVars

\* The HEAD fetch of validateSite settles; on success discoverMoneyPages
\* pushes the homepage and issues its first probe.  fetch rejects any URL
\* that is not http(s).
ValidateResolved(o) ==
  /\ pc = "validateSite"
  /\ ParseURL(baseUrl).scheme \notin {HTTP, HTTPS} => o.kind = "error"
  /\ LET valid == validateSite(o) IN
     IF ~valid
     THEN /\ isValid' = "false"
          /\ pc' = "failed"
          /\ result' = Error("Site is not accessible or returned an error")
          /\ UNCHANGED <<discovered, catIdx, patIdx>>
     ELSE /\ isValid' = "true"
          /\ discovered' = <<[url |-> baseUrl, type |-> "homepage",
                              label |-> <<"H","o","m","e","p","a","g","e">>]>>
          /\ catIdx' = 1
          /\ patIdx' = 1
          /\ pc' = "probe"
          /\ result' = result
  /\ UNCHANGED <<rawUrl, baseUrl, probeLog, probeOutcome, browser, launches, pageIdx,
                 openContexts, contextLog, driveLog, observed, audits,
                 errorLog>>
  /\ UNCHANGED pureVars

----------------------------------------------------------------------------
(* discoverMoneyPages                                                      *)

\* c.toUpperCase() for the letters that start a pattern.
ToUpperCase(c) ==
  CASE c = "a" -> "A" [] c = "b" -> "B" [] c = "c" -> "C" [] c = "d" -> "D"
    [] c = "g" -> "G" [] c = "p" -> "P" [] c = "r" -> "R" [] c = "s" -> "S"
    [] OTHER -> c

\* s.replace(from, to) with a string pattern: the first occurrence only.
ReplaceFirst(s, from, to) ==
  LET i == IndexOf(s, from) IN
  IF i = 0 THEN s
  ELSE SubSeq(s, 1, i - 1) \o to \o SubSeq(s, i + 1, Len(s))

\* s.charAt(0)
CharAt0(s) == IF s = <<>> THEN <<>> ELSE <<s[1]>>

\* pattern.replace('/', '').replace('-', ' ').charAt(0).toUpperCase() +
\* pattern.slice(2).replace('-', ' ')
Label(pattern) ==
  LET first == CharAt0(ReplaceFirst(ReplaceFirst(pattern, "/", <<>>),
                                    "-", <<" ">>))
  IN [i \in 1..Len(first) |-> ToUpperCase(first[i])]
       \o ReplaceFirst(SubSeq(pattern, 3, Len(pattern)), "-", <<" ">>)

\* A pattern loop without the break after a match.
CategoryDoneNoBreak(found, pattern, patterns) == pattern = Len(patterns)

\* A pattern loop whose break stands outside the status test.
CategoryDoneOnMiss(found, pattern, patterns) == TRUE

\* The inner for loop of discoverMoneyPages is left by the break after a
\* match, or when its last pattern has been probed.
CategoryDone(found, pattern, patterns) == found \/ pattern = Len(patterns)

\* One HEAD probe of discoverMoneyPages settles: a 200 pushes the page and
\* breaks to the next category, anything else moves to the next pattern.
\* After the last category the function returns and runAudit calls
\* chromium.launch.
ProbeResolved(o) ==
  /\ pc = "probe"
  /\ LET entry    == PAGE_PATTERNS[catIdx]
         pattern  == entry.patterns[patIdx]
         testUrl  == BaseHost(ParseURL(baseUrl)) \o pattern
         found    == o.kind = "response" /\ o.status = 200
         nextCat  == CategoryDone(found, patIdx, entry.patterns)
     IN /\ probeLog' = Append(probeLog, testUrl)
        /\ probeOutcome' = o
        /\ discovered' = IF found
                         THEN Append(discovered,
                                     [url |-> testUrl,
                                      type |-> entry.category,
                                      label |-> Label(pattern)])
                         ELSE discovered
        /\ IF ~nextCat
           THEN /\ patIdx' = patIdx + 1
                /\ UNCHANGED <<catIdx, pc>>
           ELSE IF catIdx < Len(PAGE_PATTERNS)
           THEN /\ catIdx' = catIdx + 1
                /\ patIdx' = 1
                /\ pc' = pc
           ELSE /\ catIdx' = 0
                /\ patIdx' = 0
                /\ pc' = "launch"
  /\ UNCHANGED <<rawUrl, baseUrl, isValid, browser, launches, pageIdx,
                 openContexts, contextLog, driveLog, observed, audits, errorLog, result>>
  /\ UNCHANGED pureVars

----------------------------------------------------------------------------
(* runAudit: browser launch, the page loop, scoring, teardown.             *)

\* chromium.launch settles.  Launched, the loop calls auditPage for the
\* first page, which asks for a new context; a rejected launch is thrown
\* out of runAudit before the try block.
LaunchResolved(ok) ==
  /\ pc = "launch"
  /\ IF ok
     THEN /\ browser' = "open"
          /\ launches' = launches + 1
          /\ pageIdx' = 1
          /\ driveLog' = Append(driveLog, 1)
          /\ pc' = "newContext"
          /\ result' = result
     ELSE /\ pc' = "failed"
          /\ result' = Error("browser launch failed")
          /\ UNCHANGED <<browser, launches, pageIdx, driveLog>>
  /\ probeOutcome' = None
  /\ UNCHANGED <<rawUrl, baseUrl, isValid, catIdx, patIdx, discovered,
                 probeLog, openContexts, contextLog, observed, audits, errorLog>>
  /\ UNCHANGED pureVars

\* browser.newContext and context.newPage settle; the callbacks are
\* registered and page.goto is issued.
NewContextResolved ==
  /\ pc = "newContext"
  /\ openContexts' = openContexts \cup {pageIdx}
  /\ pc' = "goto"
  /\ UNCHANGED <<rawUrl, baseUrl, isValid, catIdx, patIdx, discovered,
                 probeLog, probeOutcome, browser, launches, pageIdx, contextLog, driveLog, observed,
                 audits, errorLog, result>>
  /\ UNCHANGED pureVars

\* The rest of the for loop once auditPage has returned or thrown for the
\* current page: the next page's auditPage call, or, after the last page,
\* the report and the finally block's browser.close().
AfterPage(newAudits) ==
  IF pageIdx < Len(discovered)
  THEN /\ pageIdx' = pageIdx + 1
       /\ driveLog' = Append(driveLog, pageIdx + 1)
       /\ pc' = "newContext"
       /\ result' = result
  ELSE /\ result' = Report(baseUrl, newAudits)
       /\ pc' = "browserClose"
       /\ UNCHANGED <<pageIdx, driveLog>>

\* A page loop that a throwing auditPage ends.
PageThrowsAborts ==
  /\ errorLog' = Append(errorLog, pageIdx)
  /\ contextLog' = Append(contextLog, openContexts)
  /\ observed' = None
  /\ result' = Report(baseUrl, audits)
  /\ pc' = "browserClose"
  /\ UNCHANGED <<pageIdx, driveLog, audits, openContexts>>

\* auditPage throws: runAudit's catch logs the page and goes on.
PageThrows ==
  /\ errorLog' = Append(errorLog, pageIdx)
  /\ contextLog' = Append(contextLog, openContexts)
  /\ observed' = None
  /\ AfterPage(audits)
  /\ UNCHANGED <<audits, openContexts>>

\* page.goto and page.waitForTimeout settle.
GotoResolved(ok) ==
  /\ pc = "goto"
  /\ IF ok
     THEN /\ \E load \in PageLoads : observed' = load
          /\ pc' = "evaluate"
          /\ UNCHANGED <<pageIdx, driveLog, result, audits, openContexts,
                         contextLog, errorLog>>
     ELSE PageThrows
  /\ UNCHANGED <<rawUrl, baseUrl, isValid, catIdx, patIdx, discovered,
                 probeLog, probeOutcome, browser, launches>>
  /\ UNCHANGED pureVars

\* page.evaluate settles; with a value, context.close() is issued.
EvaluateResolved(ok) ==
  /\ pc = "evaluate"
  /\ IF ok
     THEN /\ pc' = "contextClose"
          /\ UNCHANGED <<pageIdx, driveLog, result, audits, openContexts,
                         contextLog, errorLog, observed>>
     ELSE PageThrows
  /\ UNCHANGED <<rawUrl, baseUrl, isValid, catIdx, patIdx, discovered,
                 probeLog, probeOutcome, browser, launches>>
  /\ UNCHANGED pureVars

\* context.close() settles; auditPage builds its findings and returns, and
\* runAudit pushes the audit with the page's type and label.
ContextCloseResolved ==
  /\ pc = "contextClose"
  /\ LET page  == discovered[pageIdx]
         audit == PageAudit(page.url, observed, observed.formsIssue)
         newAudits == Append(audits, [audit |-> audit,
                                      loadTime |-> audit.loadTime,
                                      pageType |-> page.type,
                                      pageLabel |-> page.label])
     IN /\ openContexts' = openContexts \ {pageIdx}
        /\ contextLog' = Append(contextLog, openContexts \ {pageIdx})
        /\ audits' = newAudits
        /\ observed' = None
        /\ AfterPage(newAudits)
  /\ UNCHANGED <<rawUrl, baseUrl, isValid, catIdx, patIdx, discovered,
                 probeLog, probeOutcome, browser, launches, errorLog>>
  /\ UNCHANGED pureVars

\* A run that returns its report without closing the browser.
BrowserCloseSkipped ==
  /\ pc = "browserClose"
  /\ pc' = "done"
  /\ UNCHANGED <<rawUrl, baseUrl, isValid, catIdx, patIdx, discovered,
                 probeLog, probeOutcome, browser, launches, pageIdx, openContexts,
                 contextLog, driveLog, observed, audits, errorLog, result>>
  /\ UNCHANGED pureVars

\* browser.close() in the finally block settles, closing the browser with
\* every context it still holds; runAudit returns the report.
BrowserCloseResolved ==
  /\ pc = "browserClose"
  /\ browser' = "closed"
  /\ openContexts' = {}
  /\ pc' = "done"
  /\ UNCHANGED <<rawUrl, baseUrl, isValid, catIdx, patIdx, discovered,
                 probeLog, probeOutcome, launches, pageIdx, contextLog, driveLog, observed, audits,
                 errorLog, result>>
  /\ UNCHANGED pureVars

Init == RunInit /\ PureIdle

Next ==
  \/ Start
  \/ \E o \in FetchOutcomes : ValidateResolved(o)
  \/ \E o \in FetchOutcomes : ProbeResolved(o)
  \/ \E ok \in BOOLEAN : LaunchResolved(ok)
  \/ NewContextResolved
  \/ \E ok \in BOOLEAN : GotoResolved(ok)
  \/ \E ok \in BOOLEAN : EvaluateResolved(ok)
  \/ ContextCloseResolved
  \/ BrowserCloseResolved

Spec == Init /\ [][Next]_vars

----------------------------------------------------------------------------
(* generateFindings as a function of its argument.                         *)

Margin == 1

\* The threshold itself and a value above it.
Near(n) == {n, n + Margin}

FindingsInputs ==
  [loadTime : Near(2500) \cup Near(4000),
   totalRequests : Near(50) \cup Near(100),
   imageCount : Near(30),
   scriptCount : {0},
   thirdPartyScripts : Near(5) \cup Near(8),
   largestResource :
     {None} \cup [kind : {"resource"}, type : {"image", "script", "font"},
                  size : Near(1000000)],
   hasForms : BOOLEAN,
   totalSize : {Undefined} \cup {Bytes(n) : n \in Near(5000000)}]

RunIdle ==
  /\ rawUrl = <<>>
  /\ pc = "idle"
  /\ baseUrl = <<>>
  /\ isValid = "unset"
  /\ catIdx = 0
  /\ patIdx = 0
  /\ discovered = <<>>
  /\ probeLog = <<>>
  /\ probeOutcome = None
  /\ browser = "none"
  /\ launches = 0
  /\ pageIdx = 0
  /\ openContexts = {}
  /\ contextLog = <<>>
  /\ driveLog = <<>>
  /\ observed = None
  /\ audits = <<>>
  /\ errorLog = <<>>
  /\ result = None

FindingsInit ==
  /\ RunIdle
  /\ fData \in FindingsInputs
  /\ fOut = None
  /\ sIn = None
  /\ sOut = None
  /\ PageIdle

CallGenerateFindings ==
  /\ fOut = None
  /\ fData # None
  /\ fOut' = [kind |-> "findings"] @@ generateFindings(fData)
  /\ UNCHANGED <<fData, sIn, sOut>>
  /\ UNCHANGED pgVars
  /\ UNCHANGED runVars

FindingsNext == CallGenerateFindings

FindingsSpec == FindingsInit /\ [][FindingsNext]_vars

----------------------------------------------------------------------------
(* calculateScore as a function of its argument.                           *)

MaxSeconds == 6
MaxSamples == 2

NaN == [num |-> 0, den |-> 0]

\* Mean load times on and just above every whole second, as sums of
\* milliseconds over a number of pages, and the mean of no page.
ScoreInputs ==
  {[num |-> s * 1000 * n + d, den |-> n] :
     s \in 0..MaxSeconds, d \in {0, 1}, n \in 1..MaxSamples} \cup {NaN}

ScoreInit ==
  /\ RunIdle
  /\ sIn \in [kind : {"args"}, t1 : ScoreInputs, t2 : ScoreInputs]
  /\ sOut = None
  /\ fData = None
  /\ fOut = None
  /\ PageIdle

CallCalculateScore ==
  /\ sOut = None
  /\ sIn # None
  /\ sOut' = [kind |-> "scores", s1 |-> calculateScore(sIn.t1),
              s2 |-> calculateScore(sIn.t2)]
  /\ UNCHANGED <<fData, fOut, sIn>>
  /\ UNCHANGED pgVars
  /\ UNCHANGED runVars

ScoreNext == CallCalculateScore

ScoreSpec == ScoreInit /\ [][ScoreNext]_vars

----------------------------------------------------------------------------
(* auditPage on its own: the request and response callbacks that fire      *)
(* during navigation and the settle wait, then the rest of the function.   *)

MaxRequests == 2

\* The requests a page may issue and the responses it may get.
RequestUrls     == {SelfUrl, OtherUrl}
RequestTypes    == {"image", "script"}
ResponseStatus  == {200, 404}
\* response.headers()['content-length'] || 0
ContentLengths  == {SizeZero, SizeOf(400000), SizeOf(3000000)}
Elapsed         == {3000, 5200}

NoResponse == [got |-> FALSE, status |-> 0, size |-> SizeUnset]

PageInit ==
  /\ RunIdle
  /\ fData = None
  /\ fOut = None
  /\ sIn = None
  /\ sOut = None
  /\ PageIdle

\* page.on('request'): push { url, type, method }; status and size are
\* not set yet (status 0 stands for undefined).
OnRequest(url, type) ==
  /\ pgOut = None
  /\ Len(pgRequests) < MaxRequests
  /\ pgRequests' = Append(pgRequests, [url |-> url, type |-> type,
                                       method |-> "GET", status |-> 0,
                                       size |-> SizeUnset])
  /\ pgSent' = Append(pgSent, NoResponse)
  /\ UNCHANGED <<pgOut, fData, fOut, sIn, sOut>>
  /\ UNCHANGED runVars

\* requests.find(r => r.url === url): the index of the first match, 0 for
\* undefined.
FindByUrl(requests, url) ==
  IF \E k \in DOMAIN requests : requests[k].url = url
  THEN CHOOSE k \in DOMAIN requests :
         /\ requests[k].url = url
         /\ \A j \in 1..(k - 1) : requests[j].url # url
  ELSE 0

\* page.on('response') for the response to the i-th request: the entry
\* found by the response's URL gets the status and the content-length.
OnResponse(i, status, length) ==
  /\ pgOut = None
  /\ i \in DOMAIN pgSent
  /\ ~pgSent[i].got
  /\ LET k == FindByUrl(pgRequests, pgRequests[i].url) IN
     pgRequests' = IF k = 0 THEN pgRequests
                   ELSE [pgRequests EXCEPT ![k].status = status,
                                           ![k].size = length]
  /\ pgSent' = [pgSent EXCEPT ![i] = [got |-> TRUE, status |-> status,
                                      size |-> length]]
  /\ UNCHANGED <<pgOut, fData, fOut, sIn, sOut>>
  /\ UNCHANGED runVars

\* page.goto and the settle wait are over: the metrics, page.evaluate,
\* context.close, generateFindings and the return.
PageSettled(elapsed, hasForms) ==
  /\ pgOut = None
  /\ pgOut' = [kind |-> "audit"]
               @@ PageAudit(SelfUrl,
                            [elapsed |-> elapsed, requests |-> pgRequests,
                             formsIssue |-> hasForms],
                            hasForms)
  /\ UNCHANGED <<pgRequests, pgSent, fData, fOut, sIn, sOut>>
  /\ UNCHANGED runVars

PageNext ==
  \/ \E url \in RequestUrls, type \in RequestTypes : OnRequest(url, type)
  \/ \E i \in 1..MaxRequests, status \in ResponseStatus,
        length \in ContentLengths : OnResponse(i, status, length)
  \/ \E elapsed \in Elapsed, hasForms \in BOOLEAN :
        PageSettled(elapsed, hasForms)

PageSpec == PageInit /\ [][PageNext]_vars

----------------------------------------------------------------------------
(* Properties.                                                             *)

InvalidUrl == Error("Invalid URL provided")

\* C1.  A run in which no page drive succeeded ends in an error: when
\* runAudit has returned and the audits array is empty, what it produced
\* is an error, never a report.
C1_NoPagesSucceeded ==
  (pc = "done" /\ audits = <<>>) => result.kind = "error"

\* C2.  Every browsing context is closed before its auditPage call returns
\* or throws: no two contexts are ever open together, and at each return
\* or throw of auditPage no context is open.
C2_ContextsReleased ==
  /\ Cardinality(openContexts) <= 1
  /\ \A i \in DOMAIN contextLog : contextLog[i] = {}

\* The indices of the pages whose auditPage call did not throw.
Succeeded == SelectSeq(driveLog, LAMBDA i : \A k \in DOMAIN errorLog : errorLog[k] # i)

\* C3.  A failed drive never aborts the run: a run that logged a page
\* failure has not failed, and once the loop is over every discovered page
\* has been driven, in order, and the report's pages are the discovered
\* pages whose drive succeeded, in discovery order.
C3_FailureIsolation ==
  /\ errorLog # <<>> => pc # "failed"
  /\ pc \in {"browserClose", "done"} =>
       /\ driveLog = [i \in 1..Len(discovered) |-> i]
       /\ result.kind = "report"
       /\ Len(result.pages) = Len(Succeeded)
       /\ \A j \in 1..Len(Succeeded) :
            /\ result.pages[j].audit.url = discovered[Succeeded[j]].url
            /\ result.pages[j].pageType = discovered[Succeeded[j]].type
            /\ result.pages[j].pageLabel = discovered[Succeeded[j]].label

\* C3 witness: a finished run in which a page failed and a later page
\* succeeded.
C3_Witness ==
  /\ pc = "done"
  /\ errorLog # <<>>
  /\ Succeeded # <<>>
  /\ errorLog[1] < Succeeded[Len(Succeeded)]

\* C4.  A run whose URL does not parse, or whose reachability probe
\* failed, has failed with an error, and no
\* pattern was probed, no browser launched and no page driven.
C4_FailsBeforeWork ==
  LET malformed   == pc # "start" /\ ~ParseURL(rawUrl).ok
      probeFailed == isValid = "false"
  IN (malformed \/ probeFailed) =>
       /\ pc = "failed"
       /\ result.kind = "error"
       /\ probeLog = <<>>
       /\ browser = "none"
       /\ launches = 0
       /\ driveLog = <<>>

\* C4 witness: the reachability probe of a well-formed URL failed and the
\* run has failed.
C4_Witness ==
  /\ pc = "failed"
  /\ ParseURL(rawUrl).ok
  /\ isValid = "false"

\* C5.  At most one browser is launched; pages are driven only while
\* that one browser is open; an open browser means the run is still in its
\* page loop or awaiting browser.close(), so every run that has ended,
\* with a report or an error, has closed the browser it launched; and
\* once the browser is closed it stays closed and no page is driven.
C5_OneBrowser ==
  /\ [](launches <= 1)
  /\ [](pc \in {"newContext", "goto", "evaluate", "contextClose"}
          => browser = "open" /\ launches = 1)
  /\ [](browser = "open"
          => pc \in {"newContext", "goto", "evaluate", "contextClose",
                     "browserClose"})
  /\ []((pc \in {"done", "failed"} /\ launches > 0) => browser = "closed")
  /\ [][browser = "closed"
          => browser' = "closed" /\ driveLog' = driveLog
             /\ openContexts' = openContexts]_vars

\* C5 witness: a finished run that drove several pages with its browser and
\* closed it.
C5_Witness ==
  /\ pc = "done"
  /\ browser = "closed"
  /\ launches = 1
  /\ Len(driveLog) >= 2

\* s is a bare host name: no scheme, and a valid URL once https:// is put
\* in front of it.
BareHost(s) ==
  /\ s # <<>>
  /\ IndexOf(s, ":") = 0
  /\ ParseURL(HTTPS \o <<":","/","/">> \o s).ok

\* C6.  A raw URL without a scheme is defaulted to https:// and the run
\* goes on to the reachability check instead of failing with InvalidUrl.
C6_DefaultsToHttps ==
  (pc # "start" /\ BareHost(rawUrl)) =>
     /\ result # InvalidUrl
     /\ baseUrl = Serialize(ParseURL(HTTPS \o <<":","/","/">> \o rawUrl))

\* The position of a category in the fixed table order.
CategoryRank(type) ==
  CASE type = "saas" -> 1 [] type = "ecommerce" -> 2
    [] type = "booking" -> 3 [] type = "contact" -> 4 [] OTHER -> 0

\* C7.  The discovered list starts with the one homepage entry, followed by
\* category pages in strictly increasing table order, hence at most one
\* page per category.
C7_DiscoveryShape ==
  discovered # <<>> =>
    /\ discovered[1].type = "homepage"
    /\ \A i \in 2..Len(discovered) : CategoryRank(discovered[i].type) \in 1..4
    /\ \A i, j \in 2..Len(discovered) :
         i < j => CategoryRank(discovered[i].type)
                    < CategoryRank(discovered[j].type)

\* C7 witness: discovery has returned the homepage, a saas page found
\* after an earlier saas pattern missed, and a contact page, with ecommerce
\* and booking absent.
C7_Witness ==
  /\ pc = "launch"
  /\ Len(discovered) = 3
  /\ discovered[2].type = "saas"
  /\ discovered[2].url # BaseHost(ParseURL(baseUrl)) \o PAGE_PATTERNS[1].patterns[1]
  /\ discovered[3].type = "contact"

\* C8.  generateFindings returns at least one finding.
C8_AtLeastOneFinding ==
  fOut.kind = "findings" => Len(fOut.findings) >= 1

\* C8 witness: a call in which no threshold rule fired and the fallback
\* supplied the only finding.
C8_Witness ==
  /\ fOut.kind = "findings"
  /\ fOut.findings = <<FallbackFinding>>

\* The rule of the table that emits a fix.
RuleIndex(fix) ==
  CASE fix.action = "Implement critical resource prioritization" -> 1
    [] fix.action = "Optimize and compress the large image" -> 2
    [] fix.action = "Split the large JavaScript bundle" -> 2
    [] fix.action = "Bundle and minimize HTTP requests" -> 3
    [] fix.action = "Reduce total page weight" -> 4
    [] fix.action = "Audit and reduce third-party scripts" -> 5
    [] fix.action = "Defer non-critical third-party scripts" -> 5
    [] fix.action = "Optimize forms for mobile" -> 6
    [] fix.action = "Implement image lazy loading and optimization" -> 7
    [] OTHER -> 8

\* C9.  The returned fixes are the emitted fixes, sorted non-decreasing by
\* priority, and fixes of equal priority stand in rule-table order.
C9_FixesSortedStable ==
  fOut.kind = "findings" =>
    LET out == fOut.fixes
        emitted == EmitRules(fData).fixes
    IN /\ Len(out) = Len(emitted)
       /\ \A f \in {emitted[i] : i \in DOMAIN emitted} :
            \E i \in DOMAIN out : out[i] = f
       /\ \A i, j \in DOMAIN out :
            i < j =>
              /\ out[i].priority <= out[j].priority
              /\ out[i].priority = out[j].priority
                   => RuleIndex(out[i]) < RuleIndex(out[j])

\* C9 witness: a call that returned fixes of priority 1, 2 and 3 with two
\* different rules tied at priority 2.
C9_Witness ==
  /\ fOut.kind = "findings"
  /\ \E i, j, k, l \in DOMAIN fOut.fixes :
       /\ i < j /\ j < k /\ k < l
       /\ fOut.fixes[i].priority = 1
       /\ fOut.fixes[j].priority = 2
       /\ fOut.fixes[k].priority = 2
       /\ fOut.fixes[l].priority = 3

\* t <= secs and t1 < t2 for load times held as fractions of milliseconds.
AtMost(t, secs) == t.num <= secs * 1000 * t.den
Before(t1, t2) == t1.num * t2.den < t2.num * t1.den

\* The score the step table gives a load time.
Tier(t) ==
  IF AtMost(t, 2) THEN 90
  ELSE IF AtMost(t, 3) THEN 75
  ELSE IF AtMost(t, 4) THEN 60
  ELSE IF AtMost(t, 5) THEN 45
  ELSE 30

\* C10.  calculateScore gives 90 up to 2s, 75 up to 3s, 60 up to 4s, 45 up
\* to 5s and 30 above, each boundary in the better tier, and never a higher
\* score to a longer load time.
C10_ScoreSteps ==
  sOut.kind = "scores" =>
    /\ sIn.t1.den > 0 => sOut.s1 = Tier(sIn.t1)
    /\ sIn.t2.den > 0 => sOut.s2 = Tier(sIn.t2)
    /\ (sIn.t1.den > 0 /\ sIn.t2.den > 0 /\ Before(sIn.t1, sIn.t2))
         => sOut.s1 >= sOut.s2

\* C10 witness: exactly 2.0s scored 90 next to a load time just above 2s
\* that scored 75.
C10_Witness ==
  /\ sOut.kind = "scores"
  /\ sIn.t1 = [num |-> 2000, den |-> 1]
  /\ sOut.s1 = 90
  /\ sIn.t2 = [num |-> 2001, den |-> 1]
  /\ sOut.s2 = 75

\* The bytes of the responses recorded in a requests array, a request
\* without a content-length counting 0.
RECURSIVE TotalBytes(_)
TotalBytes(requests) ==
  IF requests = <<>> THEN 0
  ELSE Head(requests).size.bytes + TotalBytes(Tail(requests))

InSeq(x, seq) == \E i \in DOMAIN seq : seq[i] = x

\* C11.  A page audit whose recorded requests weigh more than 5,000,000
\* bytes in total holds the high-severity total-page-weight finding and
\* the priority-2 fix that reduces the total weight.
C11_TotalWeightReported ==
  (pgOut.kind = "audit" /\ TotalBytes(pgRequests) > 5000000) =>
     /\ InSeq(Finding("Total page weight is too heavy", "high", "resources",
                      "Target: <3MB"), pgOut.findings.findings)
     /\ InSeq(Fix("Reduce total page weight", "medium", 2),
              pgOut.findings.fixes)

\* C16.  Every recorded request holds the status and size of its own
\* response, and a request that got no response holds none.
C16_OwnResponse ==
  \A i \in DOMAIN pgRequests :
    IF pgSent[i].got
    THEN /\ pgRequests[i].status = pgSent[i].status
         /\ pgRequests[i].size = pgSent[i].size
    ELSE /\ pgRequests[i].status = 0
         /\ pgRequests[i].size = SizeUnset

CriticalLoadFinding ==
  Finding("Page takes too long to load on mobile", "critical", "performance",
          "Target: <3s")
HighLoadFinding ==
  Finding("Page could load faster on mobile", "high", "performance",
          "Target: <2.5s")
CriticalLoadFix ==
  Fix("Implement critical resource prioritization", "medium", 1)

\* The load-time findings of a result: the only ones of category
\* "performance".
LoadFindings(out) ==
  SelectSeq(out.findings, LAMBDA f : f.category = "performance")

\* C13.  generateFindings emits at most one load-time finding: the critical
\* one, with the priority-1 prioritization fix, exactly above 4s; the high
\* one, without that fix, exactly above 2.5s and up to 4s; none up to 2.5s.
C13_LoadTimeTiers ==
  fOut.kind = "findings" =>
    LET t == fData.loadTime
        perf == LoadFindings(fOut)
    IN /\ Len(perf) <= 1
       /\ (t > 4000) <=> (perf = <<CriticalLoadFinding>>)
       /\ (t > 4000) <=> InSeq(CriticalLoadFix, fOut.fixes)
       /\ (t > 2500 /\ t <= 4000) <=> (perf = <<HighLoadFinding>>)
       /\ (t <= 2500) <=> (perf = <<>>)

\* C13 witness: a load time of exactly 4s got the high finding and no
\* prioritization fix.
C13_Witness ==
  /\ fOut.kind = "findings"
  /\ fData.loadTime = 4000
  /\ LoadFindings(fOut) = <<HighLoadFinding>>
  /\ ~InSeq(CriticalLoadFix, fOut.fixes)

\* No threshold of rules 1-7 is exceeded by the metrics.
NoRuleFires(data) ==
  /\ data.loadTime <= 2500
  /\ ~(data.largestResource.kind = "resource"
       /\ data.largestResource.size > 1000000)
  /\ data.totalRequests <= 50
  /\ ~(data.totalSize.defined /\ data.totalSize.bytes > 5000000)
  /\ data.thirdPartyScripts <= 5
  /\ ~data.hasForms
  /\ data.imageCount <= 30

\* C14.  The fallback finding is in the output exactly when no rule 1-7
\* fired; then the output is that one low "general" finding and the one
\* priority-1 fallback fix, and otherwise neither of the two appears.
C14_FallbackExactly ==
  fOut.kind = "findings" =>
    LET fired == InSeq(FallbackFinding, fOut.findings) IN
    /\ fired <=> NoRuleFires(fData)
    /\ fired => /\ fOut.findings = <<FallbackFinding>>
                /\ fOut.fixes = <<FallbackFix>>
                /\ FallbackFinding.impact = "low"
                /\ FallbackFinding.category = "general"
                /\ FallbackFix.priority = 1
    /\ ~fired => /\ ~InSeq(FallbackFix, fOut.fixes)
                 /\ \A i \in DOMAIN fOut.findings :
                      /\ fOut.findings[i].category # "general"
                      /\ fOut.findings[i].impact # "low"

\* C14 witness: a call with every metric on its threshold returned the
\* fallback pair, and nothing else.
C14_Witness ==
  /\ fOut.kind = "findings"
  /\ NoRuleFires(fData)
  /\ fData.totalRequests = 50
  /\ Len(fOut.findings) = 1
  /\ fOut.fixes = <<FallbackFix>>

\* Every "-" of s turned into a space.
ReplaceAllHyphens(s) == [i \in 1..Len(s) |-> IF s[i] = "-" THEN " " ELSE s[i]]

\* A pattern without its leading slash, hyphens as spaces, first letter
\* capitalized.
ExpectedLabel(pattern) ==
  LET words == ReplaceAllHyphens(IF pattern # <<>> /\ Head(pattern) = "/"
                                 THEN Tail(pattern) ELSE pattern)
  IN IF words = <<>> THEN <<>>
     ELSE <<ToUpperCase(words[1])>> \o Tail(words)

\* The pattern a discovered page was found with: its URL behind the host.
PatternOf(page) ==
  SubSeq(page.url, Len(BaseHost(ParseURL(baseUrl))) + 1, Len(page.url))

\* C15.  The label of every discovered category page is its pattern with
\* the leading slash stripped, every hyphen replaced by a space and the
\* first letter capitalized.
C15_Labels ==
  \A i \in 2..Len(discovered) :
    discovered[i].label = ExpectedLabel(PatternOf(discovered[i]))

\* The test URL of the k-th pattern of the c-th category.
TestUrl(c, k) == BaseHost(ParseURL(baseUrl)) \o PAGE_PATTERNS[c].patterns[k]

\* The patterns of the probes that have settled, in order: each logged test
\* URL behind a host of n characters.
PatternsProbed(n) ==
  [j \in 1..Len(probeLog) |-> SubSeq(probeLog[j], n + 1, Len(probeLog[j]))]

\* The probes made for the c-th category among the probed patterns.
ProbedOf(c, probed) ==
  SelectSeq(probed,
            LAMBDA p : \E k \in DOMAIN PAGE_PATTERNS[c].patterns :
                         p = PAGE_PATTERNS[c].patterns[k])

\* The position of discovery after it has left the c-th category.
LeavesCategory(c) ==
  IF c < Len(PAGE_PATTERNS)
  THEN pc' = "probe" /\ catIdx' = c + 1 /\ patIdx' = 1
  ELSE pc' = "launch"

\* C12.  Probes go through the categories and, within a category, through
\* its patterns in table order; a probe answered with 200 emits the page of
\* its pattern and ends the category, so a category's page is the last
\* pattern probed for it; any other outcome emits nothing, goes on to the
\* next pattern (or category) and never fails discovery.
C12_FirstMatchWins ==
  /\ [](LET n      == Len(BaseHost(ParseURL(baseUrl)))
            probed == PatternsProbed(n)
        IN /\ probed = ProbedOf(1, probed) \o ProbedOf(2, probed)
                         \o ProbedOf(3, probed) \o ProbedOf(4, probed)
           /\ \A c \in DOMAIN PAGE_PATTERNS :
                LET mine == ProbedOf(c, probed)
                IN /\ mine = SubSeq(PAGE_PATTERNS[c].patterns, 1, Len(mine))
                   /\ \A i \in 2..Len(discovered) :
                        discovered[i].type = PAGE_PATTERNS[c].category
                          => /\ mine # <<>>
                             /\ SubSeq(discovered[i].url, n + 1,
                                       Len(discovered[i].url))
                                  = mine[Len(mine)])
  /\ [][pc = "probe" =>
          LET hit     == /\ probeOutcome'.kind = "response"
                         /\ probeOutcome'.status = 200
              last    == patIdx = Len(PAGE_PATTERNS[catIdx].patterns)
              testUrl == TestUrl(catIdx, patIdx)
          IN /\ probeLog' = Append(probeLog, testUrl)
             /\ pc' \in {"probe", "launch"}
             /\ hit => /\ Len(discovered') = Len(discovered) + 1
                       /\ SubSeq(discovered', 1, Len(discovered)) = discovered
                       /\ discovered'[Len(discovered')].url = testUrl
                       /\ discovered'[Len(discovered')].type
                            = PAGE_PATTERNS[catIdx].category
                       /\ LeavesCategory(catIdx)
             /\ ~hit => /\ discovered' = discovered
                        /\ IF last THEN LeavesCategory(catIdx)
                           ELSE /\ pc' = "probe"
                                /\ catIdx' = catIdx
                                /\ patIdx' = patIdx + 1]_vars

\* C12 witness: discovery has returned after its last probe timed out; the
\* saas page is the second pattern, found after the first one missed, and
\* no third saas pattern was probed.
C12_Witness ==
  /\ pc = "launch"
  /\ probeOutcome.kind = "timeout"
  /\ Len(discovered) = 2
  /\ discovered[2].type = PAGE_PATTERNS[1].category
  /\ discovered[2].url = TestUrl(1, 2)
  /\ Len(probeLog) = 2 + Len(PAGE_PATTERNS[2].patterns)
                       + Len(PAGE_PATTERNS[3].patterns)
                       + Len(PAGE_PATTERNS[4].patterns)

====
